---- MODULE Spec2Model ----
(***************************************************************************)
(* Model of src/app.py: the IIS log analyzer.                              *)
(*                                                                         *)
(* One run of the script body (lines 196-278) on one uploaded file:        *)
(* parse_iis_log (one step per iteration of its line loop, then the        *)
(* DataFrame construction and the coercions), generate_summary,            *)
(* create_pivot_table, get_error_apps, create_xlsx, the download button    *)
(* and the display of the tables.                                          *)
(*                                                                         *)
(* A line of the file is a sequence of items: a token (a maximal run of    *)
(* non-blank characters) or one blank character " ".  A cell of a table is *)
(* an option: <<>> is None/NaN/NaT, <<v>> is the value v.                  *)
(***************************************************************************)
EXTENDS Integers, Sequences, FiniteSets, TLC

\* ------------------------------------------------------------------ bounds

\* Longest uploaded file, in lines.
MaxLines == 4

\* ------------------------------------------------------ program constants

\* chunk_size, the default of parse_iis_log's second parameter.
ChunkSize == 1000

\* time-taken is divided by 1000.0 (milliseconds to seconds).
MsPerSec == 1000

\* The threshold of an error status in get_error_apps.
ErrorStatus == 500

required_fields == {"date", "time", "sc-status", "time-taken", "cs-uri-stem"}

numeric_cols ==
    {"s-port", "sc-status", "sc-substatus", "sc-win32-status", "sc-bytes",
     "cs-bytes", "time-taken"}

aggfunc == {"count", "mean", "max"}

\* ------------------------------------------------------------- option type

None == <<>>
Some(v) == <<v>>
IsNone(c) == c = <<>>
Val(c) == c[1]

Range(s) == {s[k] : k \in 1..Len(s)}

\* ------------------------------------------------------------ the inputs

SP == " "

RECURSIVE Join(_)
\* The text of a line whose tokens are toks, one blank between two tokens.
Join(toks) ==
    IF Len(toks) <= 1 THEN toks
    ELSE <<Head(toks), SP>> \o Join(Tail(toks))

F1 == Join(<<"#Fields:", "date", "time", "cs-uri-stem", "sc-status", "time-taken">>)
F2 == Join(<<"#Fields:", "date", "time", "cs-uri-stem", "s-port", "sc-status",
             "time-taken">>)
F3 == Join(<<"#Fields:", "date", "time", "sc-status">>)
F4 == Join(<<"#Fields:", "date", "time", "cs-uri-stem", "sc-status", "sc-status",
             "time-taken">>)
F5 == Join(<<"#Fields:", "date", "time", "cs-uri-stem", "cs-uri-stem", "sc-status",
             "time-taken">>)
C0 == Join(<<"#Software:", "IIS">>)
B0 == <<SP>>
D1 == Join(<<"2024-01-01", "00:00:01", "/a", "200", "150">>)
D2 == Join(<<"2024-01-01", "00:00:02", "/b", "500", "300">>) \o <<SP>>
D3 == Join(<<"2024-01-01", "00:00:03", "/a", "503", "-">>)
D4 == Join(<<"bad", "00:00:04", "/b", "abc", "300">>)
L1 == Join(<<"2024-01-01", "00:00:06", "/b", "80", "500", "300">>)

\* The lines a file is made of.
LineSet == {F1, F2, F3, F4, F5, C0, B0, D1, D2, D3, D4, L1}

RECURSIVE SeqsUpTo(_, _)
SeqsUpTo(S, n) ==
    IF n = 0 THEN {<<>>}
    ELSE LET shorter == SeqsUpTo(S, n - 1)
         IN  shorter \cup {Append(s, x) : s \in {t \in shorter : Len(t) = n - 1}, x \in S}

Files == SeqsUpTo(LineSet, MaxLines)

\* --------------------------------------------------------- str operations

\* Tokens whose first character is '#', and those that start with '#Fields:'.
HashTokens == {"#Fields:", "#Software:"}
FieldsTokens == {"#Fields:"}

\* line.startswith('#')
StartsWithHash(line) == Len(line) > 0 /\ line[1] \in HashTokens

\* line.startswith('#Fields:')
StartsWithFields(line) == Len(line) > 0 /\ line[1] \in FieldsTokens

\* line.split(): the tokens, blanks dropped.
Split(line) == SelectSeq(line, LAMBDA x : x # SP)

\* line.strip() is truthy: some character is not blank.
Strip(line) == \E k \in 1..Len(line) : line[k] # SP

\* ------------------------------------------------------------ conversions

\* The numeric strings of the inputs and their values.
NumberOf ==
    [t \in {"200", "500", "503", "150", "300", "80"} |->
        CASE t = "200" -> 200 [] t = "500" -> 500 [] t = "503" -> 503
          [] t = "150" -> 150 [] t = "300" -> 300 [] t = "80" -> 80]

\* pd.to_numeric(..., errors='coerce') of one cell.
ToNumeric(c) ==
    IF IsNone(c) THEN None
    ELSE IF Val(c) \in DOMAIN NumberOf THEN Some(NumberOf[Val(c)]) ELSE None

\* value / 1000.0 of one cell: a rational, NaN stays NaN.
ToSeconds(c) ==
    IF IsNone(c) THEN None ELSE Some([num |-> Val(c), den |-> MsPerSec])

DateTokens == {"2024-01-01"}
TimeTokens == {"00:00:01", "00:00:02", "00:00:03", "00:00:04", "00:00:06"}

\* pd.to_datetime(date + ' ' + time, errors='coerce') of one record.
ToDatetime(d, t) ==
    IF IsNone(d) \/ IsNone(t) THEN None
    ELSE IF Val(d) \in DateTokens /\ Val(t) \in TimeTokens
         THEN Some([date |-> Val(d), time |-> Val(t)])
         ELSE None

\* ----------------------------------------------------------- pd.DataFrame

RECURSIVE MaxLen(_)
MaxLen(rows) ==
    IF rows = <<>> THEN 0
    ELSE LET m == MaxLen(Tail(rows))
         IN  IF Len(Head(rows)) > m THEN Len(Head(rows)) ELSE m

\* pd.DataFrame(data, columns=fields) raises unless the longest row has as many
\* cells as there are columns; shorter rows are padded with None.
FrameFits(data, columns) == MaxLen(data) = Len(columns)

\* The columns named c, by position.
Named(columns, c) == {j \in 1..Len(columns) : columns[j] = c}

\* The label c names more than one column: df[c] is then a table, not a column.
Duplicated(columns, c) == Cardinality(Named(columns, c)) > 1

ColIndex(columns, c) == CHOOSE j \in 1..Len(columns) : columns[j] = c

\* df[c] for a label that names one column: its cells, one per row.
Column(df, c) == [k \in DOMAIN df.rows |-> df.rows[k][ColIndex(df.columns, c)]]

\* df[c] = values: every column named c is replaced; a new label is appended.
Assign(df, c, values) ==
    IF c \in Range(df.columns)
    THEN [columns |-> df.columns,
          rows    |-> [k \in DOMAIN df.rows |->
                         [j \in 1..Len(df.columns) |->
                             IF df.columns[j] = c THEN values[k] ELSE df.rows[k][j]]]]
    ELSE [columns |-> Append(df.columns, c),
          rows    |-> [k \in DOMAIN df.rows |-> Append(df.rows[k], values[k])]]

\* The rows of a table as records by column label (a label that names two
\* columns gives one of them: what reads it is not reached with such a label).
Records(df) ==
    [k \in DOMAIN df.rows |->
        [c \in Range(df.columns) |-> df.rows[k][ColIndex(df.columns, c)]]]

\* Line 48: the table of the accepted rows, a cell per column and row, a short
\* row padded with None.
Frame(data, columns) ==
    [columns |-> columns,
     rows    |-> [k \in 1..Len(data) |->
                    [j \in 1..Len(columns) |->
                        IF j <= Len(data[k]) THEN Some(data[k][j]) ELSE None]]]

\* Lines 52-54, 62, 63 raise: pd.to_numeric is given a table when a numeric
\* label names two columns; so is pd.to_datetime when 'date' or 'time' does;
\* and `if df['datetime'].isna().all()` has no truth value when 'datetime' does.
ConversionRaises(columns) ==
    \E c \in numeric_cols \cup {"date", "time", "datetime"} : Duplicated(columns, c)

\* Lines 52-54: to_numeric on each numeric column of the table.
Numeric(df) ==
    [columns |-> df.columns,
     rows    |-> [k \in DOMAIN df.rows |->
                    [j \in 1..Len(df.columns) |->
                        IF df.columns[j] \in numeric_cols
                        THEN ToNumeric(df.rows[k][j]) ELSE df.rows[k][j]]]]

\* Lines 57-58: time-taken in seconds.
Seconds(df) ==
    IF "time-taken" \in Range(df.columns)
    THEN Assign(df, "time-taken",
                [k \in DOMAIN df.rows |-> ToSeconds(Column(df, "time-taken")[k])])
    ELSE df

\* The canonical table (lines 48-62): its columns and its rows.
CanonicalTable(data, columns) ==
    LET df == Seconds(Numeric(Frame(data, columns)))
    IN  Assign(df, "datetime",
               [k \in DOMAIN df.rows |->
                   ToDatetime(Column(df, "date")[k], Column(df, "time")[k])])

\* Variant: isna().any() in place of isna().all().
AllNaT_Any(df) == \E k \in DOMAIN df.rows : IsNone(Column(df, "datetime")[k])

\* df['datetime'].isna().all()
AllNaT(df) == \A k \in DOMAIN df.rows : IsNone(Column(df, "datetime")[k])

\* ------------------------------------------------------------ aggregation

\* Rationals: time-taken in seconds and what is computed from it.
Rat(n, d) == [num |-> n, den |-> d]
Zero == Rat(0, 1)

\* The rows (by position) whose time-taken is not NaN.
NonNull(rows, K) == {k \in K : ~IsNone(rows[k]["time-taken"])}

RECURSIVE SumNum(_, _)
SumNum(rows, K) ==
    IF K = {} THEN 0
    ELSE LET k == CHOOSE x \in K : TRUE
         IN  Val(rows[k]["time-taken"]).num + SumNum(rows, K \ {k})

\* 'count': the number of non-NaN values of time-taken in the group.
AggCount(rows, K) == Some(Rat(Cardinality(NonNull(rows, K)), 1))

\* 'mean', NaN skipped; NaN for a group with no value.
AggMean(rows, K) ==
    LET N == NonNull(rows, K)
    IN  IF N = {} THEN None
        ELSE Some(Rat(SumNum(rows, N), MsPerSec * Cardinality(N)))

\* 'max', NaN skipped; NaN for a group with no value.
AggMax(rows, K) ==
    LET N == NonNull(rows, K)
    IN  IF N = {} THEN None
        ELSE LET k == CHOOSE x \in N : \A y \in N :
                        Val(rows[y]["time-taken"]).num <= Val(rows[x]["time-taken"]).num
             IN  rows[k]["time-taken"]

\* 'min', NaN skipped; NaN for a group with no value.
AggMin(rows, K) ==
    LET N == NonNull(rows, K)
    IN  IF N = {} THEN None
        ELSE LET k == CHOOSE x \in N : \A y \in N :
                        Val(rows[x]["time-taken"]).num <= Val(rows[y]["time-taken"]).num
             IN  rows[k]["time-taken"]

\* The keys of df.groupby(col): the values of the column, NaN/None dropped.
GroupKeys(rows, K, col) == {Val(rows[k][col]) : k \in {x \in K : ~IsNone(rows[x][col])}}

\* The rows of one group.
Group(rows, K, col, key) == {k \in K : rows[k][col] = Some(key)}

\* generate_summary: the table by its 'Status Code' (rows are in key order).
GenerateSummary(df) ==
    LET rows == Records(df)
        K    == DOMAIN rows
    IN  [s \in GroupKeys(rows, K, "sc-status") |->
            LET G == Group(rows, K, "sc-status", s)
            IN  [count    |-> Cardinality(G),
                 avg_time |-> AggMean(rows, G),
                 max_time |-> AggMax(rows, G),
                 min_time |-> AggMin(rows, G)]]

\* The (endpoint, status) groups of pivot_table's groupby: either key missing
\* drops the row.
PivotGroups(rows) ==
    {<<Val(rows[k]["cs-uri-stem"]), Val(rows[k]["sc-status"])>> :
        k \in {x \in DOMAIN rows :
                 ~IsNone(rows[x]["cs-uri-stem"]) /\ ~IsNone(rows[x]["sc-status"])}}

PivotGroup(rows, g) ==
    {k \in DOMAIN rows : rows[k]["cs-uri-stem"] = Some(g[1]) /\ rows[k]["sc-status"] = Some(g[2])}

PivotAgg(f, rows, g) ==
    CASE f = "count" -> AggCount(rows, PivotGroup(rows, g))
      [] f = "mean"  -> AggMean(rows, PivotGroup(rows, g))
      [] f = "max"   -> AggMax(rows, PivotGroup(rows, g))

\* agged.dropna(how="all"): the groups of one aggregation whose value is not NaN.
PivotKept(f, rows) == {g \in PivotGroups(rows) : ~IsNone(PivotAgg(f, rows, g))}

\* The table of one aggregation: unstack(fill_value=0) and fillna(0).
PieceIndex(f, rows) == {g[1] : g \in PivotKept(f, rows)}
PieceColumns(f, rows) == {g[2] : g \in PivotKept(f, rows)}
PieceCell(f, rows, e, s) ==
    IF <<e, s>> \in PivotKept(f, rows) THEN PivotAgg(f, rows, <<e, s>>) ELSE Some(Zero)

\* create_pivot_table: concat(pieces, keys=aggfunc, axis=1); a column is named
\* by its (aggregation, status), a row by its endpoint.  An endpoint one piece
\* lacks has NaN in that piece's columns.
CreatePivotTable(df) ==
    LET rows  == Records(df)
        index == UNION {PieceIndex(f, rows) : f \in aggfunc}
        cols  == UNION {{<<f, s>> : s \in PieceColumns(f, rows)} : f \in aggfunc}
    IN  [index   |-> index,
         columns |-> cols,
         cell    |-> [p \in index \X cols |->
                        IF p[1] \in PieceIndex(p[2][1], rows)
                        THEN PieceCell(p[2][1], rows, p[1], p[2][2])
                        ELSE None]]

\* Variant: > in place of >=.
IsError_Strict(row) == ~IsNone(row["sc-status"]) /\ Val(row["sc-status"]) > ErrorStatus

\* df[df['sc-status'] >= 500]: NaN compares false.
IsError(row) == ~IsNone(row["sc-status"]) /\ Val(row["sc-status"]) >= ErrorStatus

\* get_error_apps: None, or the table by its 'Endpoint'.
GetErrorApps(df) ==
    LET rows   == Records(df)
        errors == {k \in DOMAIN rows : IsError(rows[k])}
    IN  IF errors = {} THEN None
        ELSE Some([e \in GroupKeys(rows, errors, "cs-uri-stem") |->
                     LET G == Group(rows, errors, "cs-uri-stem", e)
                     IN  [error_count |-> Cardinality(G),
                          avg_time    |-> AggMean(rows, G),
                          max_time    |-> AggMax(rows, G)]])

\* create_xlsx: the sheets written, in order.
CreateXlsx(summary, raw, pivot, errs) ==
    [sheets |-> <<"Status Summary", "Raw Data">>
                \o (IF IsNone(pivot) THEN <<>> ELSE <<"Pivot Table">>)
                \o (IF IsNone(errs) THEN <<>> ELSE <<"Error Summary">>)]

\* ------------------------------------------------------------------- state

VARIABLES
    lines,        \* the uploaded file, split into lines
    pc,           \* where the run is
    i,            \* parse_iis_log: lines consumed by the loop
    fields,       \* parse_iis_log: None or the current list of field names
    data,         \* parse_iis_log: the rows accepted
    warnings,     \* st.warning: one record per malformed line reported
    progress,     \* the progress bar: None once emptied, else the lines reported
    raw_df,       \* None or the canonical table parse_iis_log returned
    summary_df,   \* None or generate_summary's table
    pivot_df,     \* None or create_pivot_table's table
    error_df,     \* None or get_error_apps' table
    xlsx_output,  \* None or the packaged document
    error,        \* None or the failure shown by st.error
    completed,    \* the stages that completed, in order
    offered       \* the download button is shown

vars ==
    <<lines, pc, i, fields, data, warnings, progress, raw_df, summary_df,
      pivot_df, error_df, xlsx_output, error, completed, offered>>

parseVars == <<i, fields, data, warnings, progress>>
outVars == <<raw_df, summary_df, pivot_df, error_df, xlsx_output, completed, offered>>

Init ==
    /\ lines \in Files
    /\ pc = "parse"
    /\ i = 0
    /\ fields = None
    /\ data = <<>>
    /\ warnings = <<>>
    /\ progress = Some(0)
    /\ raw_df = None
    /\ summary_df = None
    /\ pivot_df = None
    /\ error_df = None
    /\ xlsx_output = None
    /\ error = None
    /\ completed = <<>>
    /\ offered = FALSE

\* ------------------------------------------------- parse_iis_log: the loop

\* `if fields`: neither None nor an empty list.
Truthy(f) == ~IsNone(f) /\ Len(Val(f)) > 0

\* The line of this iteration.
Line == lines[i + 1]

InLoop == pc = "parse" /\ i < Len(lines)

\* line.split()[1:] of a '#Fields:' line.
FieldsOf(line) == Tail(Split(line))

\* Variant: the difference taken the other way round.
Missing_Reversed(f) == Range(f) \ required_fields

\* required_fields - set(fields)
Missing(f) == required_fields \ Range(f)

\* The progress bar after a line that reached the end of the loop body.
Progress == IF i % ChunkSize = 0 \/ i = Len(lines) - 1 THEN Some(i + 1) ELSE progress

\* The failure as the handler of lines 276-277 shows it.
Fail(kind, missing) ==
    /\ error' = Some([kind |-> kind, missing |-> missing])
    /\ pc' = "failed"

\* An exception inside parse_iis_log: lines 69-71 empty the progress bar and
\* raise again, and the handler of lines 276-277 shows the failure.
ParseFail(kind, missing) ==
    /\ progress' = None
    /\ Fail(kind, missing)

\* What parse_iis_log keeps of its loop once the loop is over.
loopVars == <<i, fields, data, warnings>>

\* Variant: a '#Fields:' line after the first leaves fields as they are.
ParseFieldsLine_FirstWins ==
    /\ InLoop
    /\ StartsWithHash(Line) /\ StartsWithFields(Line)
    /\ Missing(FieldsOf(Line)) = {}
    /\ fields' = IF IsNone(fields) THEN Some(FieldsOf(Line)) ELSE fields
    /\ i' = i + 1
    /\ UNCHANGED <<lines, pc, data, warnings, progress, error>>
    /\ UNCHANGED outVars

\* Lines 27-33: a '#Fields:' line with every required field.
ParseFieldsLine ==
    /\ InLoop
    /\ StartsWithHash(Line) /\ StartsWithFields(Line)
    /\ Missing(FieldsOf(Line)) = {}
    /\ fields' = Some(FieldsOf(Line))
    /\ i' = i + 1
    /\ UNCHANGED <<lines, pc, data, warnings, progress, error>>
    /\ UNCHANGED outVars

\* Lines 27-32, 69-71: a '#Fields:' line that lacks a required field.
ParseFieldsMissing ==
    /\ InLoop
    /\ StartsWithHash(Line) /\ StartsWithFields(Line)
    /\ Missing(FieldsOf(Line)) # {}
    /\ fields' = Some(FieldsOf(Line))
    /\ ParseFail("schema", Missing(FieldsOf(Line)))
    /\ UNCHANGED <<lines, i, data, warnings>>
    /\ UNCHANGED outVars

\* Lines 27, 33: any other '#' line.
ParseCommentLine ==
    /\ InLoop
    /\ StartsWithHash(Line) /\ ~StartsWithFields(Line)
    /\ i' = i + 1
    /\ UNCHANGED <<lines, pc, fields, data, warnings, progress, error>>
    /\ UNCHANGED outVars

\* Variant: the number of tokens is not compared with the number of fields.
ParseDataRow_AnyLength ==
    /\ InLoop
    /\ ~StartsWithHash(Line)
    /\ Truthy(fields) /\ Strip(Line)
    /\ data' = Append(data, Split(Line))
    /\ progress' = Progress
    /\ i' = i + 1
    /\ UNCHANGED <<lines, pc, fields, warnings, error>>
    /\ UNCHANGED outVars

\* Lines 34-37: a data line with as many tokens as fields.
ParseDataRow ==
    /\ InLoop
    /\ ~StartsWithHash(Line)
    /\ Truthy(fields) /\ Strip(Line)
    /\ Len(Split(Line)) = Len(Val(fields))
    /\ data' = Append(data, Split(Line))
    /\ progress' = Progress
    /\ i' = i + 1
    /\ UNCHANGED <<lines, pc, fields, warnings, error>>
    /\ UNCHANGED outVars

\* Variant: the malformed line is dropped without st.warning.
ParseMalformed_Silent ==
    /\ InLoop
    /\ ~StartsWithHash(Line)
    /\ Truthy(fields) /\ Strip(Line)
    /\ Len(Split(Line)) # Len(Val(fields))
    /\ progress' = Progress
    /\ i' = i + 1
    /\ UNCHANGED <<lines, pc, fields, data, warnings, error>>
    /\ UNCHANGED outVars

\* Lines 34-39: a data line with another number of tokens.
ParseMalformed ==
    /\ InLoop
    /\ ~StartsWithHash(Line)
    /\ Truthy(fields) /\ Strip(Line)
    /\ Len(Split(Line)) # Len(Val(fields))
    /\ warnings' = Append(warnings,
                          [line |-> i + 1, text |-> Line,
                           expected |-> Len(Val(fields)), got |-> Len(Split(Line))])
    /\ progress' = Progress
    /\ i' = i + 1
    /\ UNCHANGED <<lines, pc, fields, data, error>>
    /\ UNCHANGED outVars

\* Line 34 false: a blank line, or a line before any '#Fields:' line.
ParseIgnored ==
    /\ InLoop
    /\ ~StartsWithHash(Line)
    /\ ~(Truthy(fields) /\ Strip(Line))
    /\ progress' = Progress
    /\ i' = i + 1
    /\ UNCHANGED <<lines, pc, fields, data, warnings, error>>
    /\ UNCHANGED outVars

\* ---------------------------------------- parse_iis_log: after the loop

LoopDone == pc = "parse" /\ i = Len(lines)

\* Variant: `not fields` alone.
NoData_FieldsOnly == ~Truthy(fields)

\* `not fields or not data`
NoData == ~Truthy(fields) \/ data = <<>>

\* Lines 45-46, 69-71.
ParseFormatError ==
    /\ LoopDone
    /\ NoData
    /\ ParseFail("format", {})
    /\ UNCHANGED <<lines>>
    /\ UNCHANGED loopVars
    /\ UNCHANGED outVars

\* Line 48 raises, 69-71: the rows do not fit the columns.
ParseColumnsError ==
    /\ LoopDone
    /\ ~NoData
    /\ ~FrameFits(data, Val(fields))
    /\ ParseFail("columns", {})
    /\ UNCHANGED <<lines>>
    /\ UNCHANGED loopVars
    /\ UNCHANGED outVars

\* Lines 50-63 raise, 69-71: a label of the last '#Fields:' line names two
\* columns and a conversion is given a table in place of a column.
ParseConversionError ==
    /\ LoopDone
    /\ ~NoData
    /\ FrameFits(data, Val(fields))
    /\ ConversionRaises(Val(fields))
    /\ ParseFail("conversion", {})
    /\ UNCHANGED <<lines>>
    /\ UNCHANGED loopVars
    /\ UNCHANGED outVars

\* Lines 48-65: no record has a datetime: st.error and st.stop(), which no
\* `except Exception` catches: the progress bar stays as it is.
ParseStop ==
    /\ LoopDone
    /\ ~NoData
    /\ FrameFits(data, Val(fields))
    /\ ~ConversionRaises(Val(fields))
    /\ AllNaT(CanonicalTable(data, Val(fields)))
    /\ error' = Some([kind |-> "datetime", missing |-> {}])
    /\ pc' = "stopped"
    /\ UNCHANGED <<lines>>
    /\ UNCHANGED parseVars
    /\ UNCHANGED outVars

\* Lines 48-68 and 199: the progress bar is emptied (line 67) and the table
\* is returned.
ParseReturn ==
    /\ LoopDone
    /\ ~NoData
    /\ FrameFits(data, Val(fields))
    /\ ~ConversionRaises(Val(fields))
    /\ ~AllNaT(CanonicalTable(data, Val(fields)))
    /\ raw_df' = Some(CanonicalTable(data, Val(fields)))
    /\ completed' = Append(completed, "parse")
    /\ pc' = "summary"
    /\ UNCHANGED <<lines, error, summary_df, pivot_df, error_df, xlsx_output, offered>>
    /\ progress' = None
    /\ UNCHANGED loopVars

\* ------------------------------------------------------------ the pipeline

\* Line 89: the index label names two columns, and pivot_table's groupby
\* rejects a key that is not one column.
PivotRaises(df) == Duplicated(df.columns, "cs-uri-stem")

\* Line 101: the same for the groupby of the error rows, when there are any.
ErrorAppsRaises(df) ==
    /\ Duplicated(df.columns, "cs-uri-stem")
    /\ \E k \in DOMAIN df.rows : IsError(Records(df)[k])

\* Line 209.
SummaryStage ==
    /\ pc = "summary"
    /\ summary_df' = Some(GenerateSummary(Val(raw_df)))
    /\ completed' = Append(completed, "summary")
    /\ pc' = "pivot"
    /\ UNCHANGED <<lines, error, raw_df, pivot_df, error_df, xlsx_output, offered>>
    /\ UNCHANGED parseVars

\* Line 209 raises (pandas fails inside generate_summary), 276-277: what the
\* stages before assigned stays assigned.
SummaryFail ==
    /\ pc = "summary"
    /\ Fail("summary", {})
    /\ UNCHANGED <<lines>>
    /\ UNCHANGED parseVars
    /\ UNCHANGED outVars

\* Line 210.
PivotStage ==
    /\ pc = "pivot"
    /\ ~PivotRaises(Val(raw_df))
    /\ pivot_df' = IF "cs-uri-stem" \in Range(Val(raw_df).columns)
                   THEN Some(CreatePivotTable(Val(raw_df))) ELSE None
    /\ completed' = Append(completed, "pivot")
    /\ pc' = "errors"
    /\ UNCHANGED <<lines, error, raw_df, summary_df, error_df, xlsx_output, offered>>
    /\ UNCHANGED parseVars

\* Line 210 raises, 276-277: always when 'cs-uri-stem' names two columns, and
\* whenever pandas fails inside create_pivot_table.
PivotFail ==
    /\ pc = "pivot"
    /\ Fail("pivot", {})
    /\ UNCHANGED <<lines>>
    /\ UNCHANGED parseVars
    /\ UNCHANGED outVars

\* Line 211.
ErrorStage ==
    /\ pc = "errors"
    /\ ~ErrorAppsRaises(Val(raw_df))
    /\ error_df' = IF "cs-uri-stem" \in Range(Val(raw_df).columns)
                   THEN GetErrorApps(Val(raw_df)) ELSE None
    /\ completed' = Append(completed, "errors")
    /\ pc' = "xlsx"
    /\ UNCHANGED <<lines, error, raw_df, summary_df, pivot_df, xlsx_output, offered>>
    /\ UNCHANGED parseVars

\* Line 211 raises (pandas fails inside get_error_apps), 276-277.
ErrorFail ==
    /\ pc = "errors"
    /\ Fail("errors", {})
    /\ UNCHANGED <<lines>>
    /\ UNCHANGED parseVars
    /\ UNCHANGED outVars

\* Line 212: the document is written.
XlsxStage ==
    /\ pc = "xlsx"
    /\ xlsx_output' = Some(CreateXlsx(summary_df, raw_df, pivot_df, error_df))
    /\ completed' = Append(completed, "xlsx")
    /\ pc' = "offer"
    /\ UNCHANGED <<lines, error, raw_df, summary_df, pivot_df, error_df, offered>>
    /\ UNCHANGED parseVars

\* Line 212 raises (the writer fails), 276-277.
XlsxFail ==
    /\ pc = "xlsx"
    /\ Fail("export", {})
    /\ UNCHANGED <<lines>>
    /\ UNCHANGED parseVars
    /\ UNCHANGED outVars

\* Variant: the button is shown before create_xlsx has run.
OfferDownload_Early ==
    /\ pc \in {"xlsx", "offer"}
    /\ offered' = TRUE
    /\ pc' = "display"
    /\ UNCHANGED <<lines, error, raw_df, summary_df, pivot_df, error_df, xlsx_output, completed>>
    /\ UNCHANGED parseVars

\* Lines 214-222: st.success and the download button.
OfferDownload ==
    /\ pc = "offer"
    /\ offered' = TRUE
    /\ pc' = "display"
    /\ UNCHANGED <<lines, error, raw_df, summary_df, pivot_df, error_df, xlsx_output, completed>>
    /\ UNCHANGED parseVars

\* The start of the hour of each time of the inputs.
HourStart == [t \in TimeTokens |-> "00:00:00"]

\* .dt.floor('H') of one cell; NaT stays NaT.
FloorHour(c) ==
    IF IsNone(c) THEN None
    ELSE Some([date |-> Val(c).date, time |-> HourStart[Val(c).time]])

\* create_timeline_chart, line 139: df['hour'] is assigned on the table it is
\* given, which is raw_df itself.
CreateTimelineChart(df) ==
    Assign(df, "hour", [k \in DOMAIN df.rows |-> FloorHour(Column(df, "datetime")[k])])

\* Lines 224-274: the tables and the charts are shown; the timeline chart
\* (line 252) adds the column 'hour' to raw_df.
Display ==
    /\ pc = "display"
    /\ raw_df' = IF "datetime" \in Range(Val(raw_df).columns)
                 THEN Some(CreateTimelineChart(Val(raw_df))) ELSE raw_df
    /\ pc' = "done"
    /\ UNCHANGED <<lines, error, summary_df, pivot_df, error_df, xlsx_output, completed, offered>>
    /\ UNCHANGED parseVars

\* Lines 224-274 raise, 276-277: the error is shown below the button.  What
\* raises before line 139 has assigned (a table that cannot be shown, a pandas
\* that rejects the frequency alias 'H') leaves raw_df as it is; what raises
\* after it (a chart that cannot be built or shown) finds 'hour' in raw_df.
DisplayFail ==
    /\ pc = "display"
    /\ \E assigned \in BOOLEAN :
          raw_df' = IF assigned /\ "datetime" \in Range(Val(raw_df).columns)
                    THEN Some(CreateTimelineChart(Val(raw_df))) ELSE raw_df
    /\ Fail("display", {})
    /\ UNCHANGED <<lines, summary_df, pivot_df, error_df, xlsx_output, completed, offered>>
    /\ UNCHANGED parseVars

Next ==
    \/ ParseFieldsLine
    \/ ParseFieldsMissing
    \/ ParseCommentLine
    \/ ParseDataRow
    \/ ParseMalformed
    \/ ParseIgnored
    \/ ParseFormatError
    \/ ParseColumnsError
    \/ ParseConversionError
    \/ ParseStop
    \/ ParseReturn
    \/ SummaryStage
    \/ SummaryFail
    \/ PivotStage
    \/ PivotFail
    \/ ErrorStage
    \/ ErrorFail
    \/ XlsxStage
    \/ XlsxFail
    \/ OfferDownload
    \/ Display
    \/ DisplayFail

Spec == Init /\ [][Next]_vars

\* ------------------------------------------------------------- properties

\* What the file holds, read off its lines.
DataLineIdx(ls) == {k \in 1..Len(ls) : ~StartsWithHash(ls[k]) /\ Strip(ls[k])}
FieldsIdx(ls) == {k \in 1..Len(ls) : StartsWithFields(ls[k])}
SetMax(S) == CHOOSE x \in S : \A y \in S : y <= x
SetMin(S) == CHOOSE x \in S : \A y \in S : x <= y

\* The fields a '#Fields:' line declares.
Declared(ls, d) == Tail(Split(ls[d]))

\* The last '#Fields:' line before line k, 0 when there is none.
Recent(ls, k) ==
    LET D == {d \in FieldsIdx(ls) : d < k}
    IN  IF D = {} THEN 0 ELSE SetMax(D)

\* The data lines that follow some '#Fields:' line.
AfterFieldsIdx(ls) == {k \in DataLineIdx(ls) : Recent(ls, k) > 0}

\* Those with as many tokens as the last '#Fields:' line before them declares,
\* and those with another number of tokens.
AcceptedIdx(ls) ==
    {k \in AfterFieldsIdx(ls) : Len(Split(ls[k])) = Len(Declared(ls, Recent(ls, k)))}
SkippedIdx(ls) == AfterFieldsIdx(ls) \ AcceptedIdx(ls)

RECURSIVE PickRows(_, _)
\* The tokens of the lines K, in file order.
PickRows(ls, K) ==
    IF K = {} THEN <<>>
    ELSE LET k == SetMax(K)
         IN  Append(PickRows(ls, K \ {k}), Split(ls[k]))

Consumed == SubSeq(lines, 1, i)
Returned == ~IsNone(raw_df)
TableRows == Records(Val(raw_df))

\* C1 (as stated): with one '#Fields:' line declaring N fields, the table has
\* as many rows as the file has data lines with exactly N tokens.
C1_RowsAreAllNTokenLines ==
    (Returned /\ Cardinality(FieldsIdx(lines)) = 1) =>
        LET d == SetMin(FieldsIdx(lines))
            N == Len(Declared(lines, d))
        IN  Len(TableRows) = Cardinality({k \in DataLineIdx(lines) : Len(Split(lines[k])) = N})

\* C1 (amended): with one '#Fields:' line declaring N fields, the rows of the
\* table are the data lines after that line with exactly N tokens, in file
\* order; any other line adds no row and changes no other line's acceptance.
C1_RowsAreNTokenLinesAfterFields ==
    (Returned /\ Cardinality(FieldsIdx(lines)) = 1) =>
        LET d == SetMin(FieldsIdx(lines))
            N == Len(Declared(lines, d))
            M == {k \in DataLineIdx(lines) : k > d /\ Len(Split(lines[k])) = N}
        IN  /\ Len(TableRows) = Cardinality(M)
            /\ data = PickRows(lines, M)

\* A table from a file with a data line before its only '#Fields:' line and a
\* malformed line after it.
C1_Witness ==
    /\ Returned
    /\ Cardinality(FieldsIdx(lines)) = 1
    /\ \E k \in DataLineIdx(lines) : k < SetMin(FieldsIdx(lines))
    /\ SkippedIdx(lines) # {}

\* C2 (as stated): with several '#Fields:' lines the columns of the table are
\* the fields of the first one.
C2_FirstFieldsWin ==
    (Returned /\ Cardinality(FieldsIdx(lines)) > 1) =>
        LET first == Declared(lines, SetMin(FieldsIdx(lines)))
        IN  /\ Len(Val(raw_df).columns) > Len(first)
            /\ SubSeq(Val(raw_df).columns, 1, Len(first)) = first

\* C2 (amended): the schema a data line is checked against is the last
\* '#Fields:' line before it, and the columns of the table are the fields of
\* the last '#Fields:' line of the file (followed by 'datetime', and by 'hour'
\* once the timeline chart was drawn).
C2_LatestFieldsWin ==
    /\ pc = "parse" =>
          fields = IF Recent(lines, i + 1) = 0 THEN None
                   ELSE Some(Declared(lines, Recent(lines, i + 1)))
    /\ Returned =>
          /\ LET base == Declared(lines, SetMax(FieldsIdx(lines))) \o <<"datetime">>
             IN  /\ Val(raw_df).columns \in {base, base \o <<"hour">>}
                 /\ pc = "done" => Val(raw_df).columns = base \o <<"hour">>
                 /\ (pc # "done" /\ ~(pc = "failed" /\ Val(error).kind = "display"))
                       => Val(raw_df).columns = base
          /\ data = PickRows(lines, AcceptedIdx(lines))

\* A table whose rows were accepted under two different '#Fields:' lines.
C2_Witness ==
    /\ Returned
    /\ \E a, b \in AcceptedIdx(lines) :
          Declared(lines, Recent(lines, a)) # Declared(lines, Recent(lines, b))

\* C3 (as stated): when the loop ends, rows = data lines - warnings.
C3_RowsAreDataLinesLessWarnings ==
    i = Len(lines) =>
        Len(data) = Cardinality(DataLineIdx(lines)) - Len(warnings)

\* C3 (amended): every data line after the first '#Fields:' line that does not
\* become a row is reported by exactly one warning, and the loop goes on; a
\* data line before the first '#Fields:' line is dropped without a warning.  So
\* rows = data lines after the first '#Fields:' line - warnings.
C3_OneWarningPerSkippedLine ==
    LET P == Consumed
        A == AcceptedIdx(P)
        S == SkippedIdx(P)
    IN  /\ Len(data) = Cardinality(A)
        /\ Len(warnings) = Cardinality(S)
        /\ {warnings[j].line : j \in 1..Len(warnings)} = S
        /\ \A j \in 1..Len(warnings) :
              /\ warnings[j].got = Len(Split(lines[warnings[j].line]))
              /\ warnings[j].expected = Len(Declared(lines, Recent(lines, warnings[j].line)))
        /\ Len(data) = Cardinality(AfterFieldsIdx(P)) - Len(warnings)

\* The loop has ended with a warning, a row accepted after the malformed line
\* and a data line dropped before the first '#Fields:' line.
C3_Witness ==
    /\ i = Len(lines)
    /\ \E j \in 1..Len(warnings) : \E k \in AcceptedIdx(lines) : k > warnings[j].line
    /\ DataLineIdx(lines) \ AfterFieldsIdx(lines) # {}

\* Some label among the numeric ones, 'date', 'time' and 'datetime' occurs
\* twice in the list f.
NamedTwice(f) ==
    \E a, b \in 1..Len(f) :
        a # b /\ f[a] = f[b] /\ f[a] \in numeric_cols \cup {"date", "time", "datetime"}

\* parse_iis_log got through its loop, built the table and converted its
\* columns.
BuiltTable == pc # "parse" /\ i = Len(lines) /\ data # <<>> /\ ~IsNone(fields)
             /\ MaxLen(data) = Len(Val(fields))
             /\ ~NamedTwice(Val(fields))

\* The token of a row under the label c, None where the row is too short.
TokenAt(row, f, c) ==
    LET j == CHOOSE x \in 1..Len(f) : f[x] = c
    IN  IF j <= Len(row) THEN Some(row[j]) ELSE None

NoDatetime ==
    \A k \in 1..Len(data) :
        LET f == Val(fields)
        IN  IsNone(ToDatetime(TokenAt(data[k], f, "date"), TokenAt(data[k], f, "time")))

\* C4 (as stated): when no record has a datetime the table is still returned
\* and the run goes on.
C4_NoDatetimeStillReturns ==
    (BuiltTable /\ NoDatetime) => (Returned /\ pc # "stopped")

\* C4 (amended): once the table is built and its columns converted, when no
\* record has a datetime the run stops with an error:
\* no table is returned, no stage runs and nothing is offered; with at least
\* one datetime the table is returned with every accepted row.
C4_NoDatetimeStops ==
    BuiltTable =>
        /\ NoDatetime <=> pc = "stopped"
        /\ pc = "stopped" =>
              /\ ~Returned /\ completed = <<>> /\ IsNone(xlsx_output) /\ ~offered
              /\ ~IsNone(error) /\ Val(error).kind = "datetime"
        /\ ~NoDatetime =>
              /\ Returned
              /\ LET T == TableRows
                 IN  /\ Len(T) = Len(data)
                     /\ \A k \in 1..Len(data) :
                           IsNone(T[k]["datetime"]) <=>
                               ~(data[k][1] \in DateTokens /\ data[k][2] \in TimeTokens)

\* The run stopped on a file with rows.
C4_Witness == pc = "stopped" /\ Len(data) >= 2

RECURSIVE SumCounts(_, _)
SumCounts(t, K) ==
    IF K = {} THEN 0
    ELSE LET k == CHOOSE x \in K : TRUE
         IN  t[k].count + SumCounts(t, K \ {k})

\* C5: the status summary has one row per distinct sc-status of the table, the
\* rows with a null sc-status being one group, and its counts add up to the
\* number of rows of the table.
C5_NullStatusIsOneGroup ==
    ~IsNone(summary_df) =>
        LET t == Val(summary_df)
        IN  /\ Cardinality(DOMAIN t)
                 = Cardinality({TableRows[k]["sc-status"] : k \in DOMAIN TableRows})
            /\ SumCounts(t, DOMAIN t) = Len(TableRows)

SchemaFailed == ~IsNone(error) /\ Val(error).kind = "schema"

\* C6 (as stated): the schema failure names the missing fields and comes before
\* any row was accepted and before any warning.
C6_SchemaFailsBeforeAnyRow ==
    SchemaFailed =>
        /\ Val(error).missing = required_fields \ Range(Declared(lines, i + 1))
        /\ data = <<>>
        /\ warnings = <<>>

\* C6 (amended): every '#Fields:' line that lacks a required field fails the
\* parse at that line, naming exactly the missing fields, and no table is
\* returned; when it is the first '#Fields:' line of the file no row was
\* accepted and no warning emitted before; rows accepted and warnings emitted
\* under an earlier '#Fields:' line precede the failure.
C6_SchemaFailsAtFieldsLine ==
    /\ \A d \in FieldsIdx(Consumed) : required_fields \subseteq Range(Declared(lines, d))
    /\ SchemaFailed =>
          /\ i < Len(lines) /\ StartsWithFields(lines[i + 1])
          /\ Val(error).missing = required_fields \ Range(Declared(lines, i + 1))
          /\ Val(error).missing # {}
          /\ pc = "failed" /\ ~Returned /\ completed = <<>> /\ ~offered
          /\ FieldsIdx(Consumed) = {} => (data = <<>> /\ warnings = <<>>)
          /\ Len(data) = Cardinality(AcceptedIdx(Consumed))
          /\ Len(warnings) = Cardinality(SkippedIdx(Consumed))

\* A schema failure at the first '#Fields:' line, after a data line.
C6_Witness ==
    /\ SchemaFailed
    /\ FieldsIdx(Consumed) = {}
    /\ DataLineIdx(Consumed) # {}

LoopCompleted == pc # "parse" /\ i = Len(lines)
FormatFailed == ~IsNone(error) /\ Val(error).kind = "format"

\* C7 (as stated): the format error exactly when the loop ends with no schema
\* or no row; otherwise a table with at least one row.
C7_FormatErrorOrTable ==
    LoopCompleted =>
        /\ FormatFailed <=> (IsNone(fields) \/ data = <<>>)
        /\ ~FormatFailed => (Returned /\ Len(TableRows) >= 1)

\* C7 (amended): the format error exactly when the loop ends with no schema or
\* no row.  Otherwise one of four, in this order: the rows do not fit the
\* columns of the last '#Fields:' line and the parse fails with the
\* constructor's error; or that line names a numeric column, 'date', 'time' or
\* 'datetime' twice and the parse fails with the conversion's error; or no
\* record has a datetime and the run stops; or a table with at least one row is
\* returned.
C7_FormatErrorOrLaterExit ==
    LoopCompleted =>
        /\ FormatFailed <=> (IsNone(fields) \/ data = <<>>)
        /\ FormatFailed => (pc = "failed" /\ ~Returned)
        /\ ~FormatFailed =>
              LET fits  == /\ \E k \in 1..Len(data) : Len(data[k]) = Len(Val(fields))
                           /\ \A k \in 1..Len(data) : Len(data[k]) <= Len(Val(fields))
                  twice == NamedTwice(Val(fields))
              IN  /\ ~fits <=> (~IsNone(error) /\ Val(error).kind = "columns")
                  /\ (fits /\ twice) <=> (~IsNone(error) /\ Val(error).kind = "conversion")
                  /\ (~fits \/ twice) => (pc = "failed" /\ ~Returned /\ completed = <<>>)
                  /\ (fits /\ ~twice /\ NoDatetime) <=> pc = "stopped"
                  /\ (fits /\ ~twice /\ ~NoDatetime) <=> (Returned /\ Len(TableRows) >= 1)

\* The loop has ended with rows that fit a '#Fields:' line naming sc-status
\* twice, and the conversion failed the parse.
C7_Witness ==
    /\ LoopCompleted
    /\ ~IsNone(error) /\ Val(error).kind = "conversion"
    /\ data # <<>>
    /\ MaxLen(data) = Len(Val(fields))

ErrorsDone == \E k \in 1..Len(completed) : completed[k] = "errors"

\* C8: the error rollup lists an endpoint exactly when some row of the table
\* has that endpoint and sc-status >= 500, with the number of such rows as its
\* error count; without any such row the result is None.
C8_ErrorRollup ==
    ErrorsDone =>
        LET Err(e) == {k \in DOMAIN TableRows :
                          /\ TableRows[k]["cs-uri-stem"] = Some(e)
                          /\ ~IsNone(TableRows[k]["sc-status"])
                          /\ Val(TableRows[k]["sc-status"]) >= 500}
            E == {Val(TableRows[k]["cs-uri-stem"]) : k \in DOMAIN TableRows}
        IN  IF \A e \in E : Err(e) = {}
            THEN IsNone(error_df)
            ELSE /\ ~IsNone(error_df)
                 /\ DOMAIN Val(error_df) = {e \in E : Err(e) # {}}
                 /\ \A e \in DOMAIN Val(error_df) :
                       Val(error_df)[e].error_count = Cardinality(Err(e))

\* A rollup with an endpoint of two errors, beside a row with a null status.
C8_Witness ==
    /\ ErrorsDone
    /\ ~IsNone(error_df)
    /\ \E e \in DOMAIN Val(error_df) : Val(error_df)[e].error_count = 2
    /\ \E k \in DOMAIN TableRows : IsNone(TableRows[k]["sc-status"])

Stages == <<"parse", "summary", "pivot", "errors", "xlsx">>

\* What each stage leaves assigned.
StageOutput ==
    [s \in Range(Stages) |->
        CASE s = "parse" -> ~IsNone(raw_df)
          [] s = "summary" -> ~IsNone(summary_df)
          [] s = "pivot" -> ~IsNone(pivot_df)
          [] s = "errors" -> TRUE
          [] s = "xlsx" -> ~IsNone(xlsx_output)]

\* The stage a failure of each kind belongs to.
StageOfKind ==
    [k \in {"schema", "format", "columns", "conversion", "datetime",
            "summary", "pivot", "errors", "export"} |->
        CASE k \in {"schema", "format", "columns", "conversion", "datetime"} -> 1
          [] k = "summary" -> 2
          [] k = "pivot" -> 3
          [] k = "errors" -> 4
          [] k = "export" -> 5]

\* C9: the document and the download button come only after parse, summary,
\* pivot, error rollup and packaging completed, in that order; a run that
\* failed in one of them (parse, generate_summary, create_pivot_table,
\* get_error_apps or create_xlsx) completed exactly the stages before it, has
\* no document and offers nothing.  (Only a failure of the display, after the
\* button, leaves the document offered.)
C9_ReportOnlyAfterAllStages ==
    /\ Len(completed) <= Len(Stages) /\ completed = SubSeq(Stages, 1, Len(completed))
    /\ ~IsNone(xlsx_output) => completed = Stages
    /\ offered =>
          /\ completed = Stages
          /\ ~IsNone(raw_df) /\ ~IsNone(summary_df) /\ ~IsNone(xlsx_output)
          /\ ~IsNone(pivot_df)
          /\ IsNone(error) \/ Val(error).kind = "display"
    /\ (~IsNone(error) /\ Val(error).kind # "display") =>
          /\ IsNone(xlsx_output) /\ ~offered
          /\ completed = SubSeq(Stages, 1, StageOfKind[Val(error).kind] - 1)
    /\ \A n \in 1..Len(Stages) :
          (StageOutput[Stages[n]] /\ Stages[n] # "errors") => n <= Len(completed)
    /\ ~IsNone(error) <=> pc \in {"failed", "stopped"}

\* create_pivot_table failed on a table whose 'cs-uri-stem' names two columns:
\* the summary is there, the document is not.
C9_Witness ==
    /\ pc = "failed"
    /\ Val(error).kind = "pivot"
    /\ completed = <<"parse", "summary">>
    /\ ~IsNone(summary_df)
    /\ Duplicated(Val(raw_df).columns, "cs-uri-stem")

\* C10: the pivot has one row per distinct cs-uri-stem and one column per
\* aggregation and observed sc-status, and the cells of a pair that never
\* occurs are zero, not null.
C10_PivotZeroFilled ==
    ~IsNone(pivot_df) =>
        LET t == Val(pivot_df)
            E == {TableRows[k]["cs-uri-stem"] : k \in DOMAIN TableRows}
            S == {Val(TableRows[k]["sc-status"]) :
                     k \in {x \in DOMAIN TableRows : ~IsNone(TableRows[x]["sc-status"])}}
        IN  /\ {Some(e) : e \in t.index} = E
            /\ t.columns = aggfunc \X S
            /\ \A p \in DOMAIN t.cell :
                  (\A k \in DOMAIN TableRows :
                      ~(/\ TableRows[k]["cs-uri-stem"] = Some(p[1])
                        /\ TableRows[k]["sc-status"] = Some(p[2][2])))
                  => t.cell[p] = Some(Zero)

====
